---- MODULE Spec2Model ----
(***************************************************************************)
(* The "Schedule a New Class" page (CreateClass) of the faculty dashboard: *)
(* a React component holding courses, loading, submitting, message and     *)
(* formData, an effect that fetches the faculty user's courses with two    *)
(* sequential reads, a change handler, and a submit handler that validates *)
(* the form, inserts one class_sessions row and schedules a redirect.      *)
(*                                                                         *)
(* Every await of the source splits a handler into steps: the synchronous  *)
(* part up to the await is one action (React commits its state updates     *)
(* together), the data-store call is then in flight, and its return runs   *)
(* the rest of the handler with the values the handler captured when it    *)
(* started (its closure), not with the component's current state.          *)
(***************************************************************************)
EXTENDS Integers, Sequences, FiniteSets, Bags, TLC

(***************************************************************************)
(* Bounds of the model.                                                    *)
(***************************************************************************)
\* fetchCourses runs that may be awaiting the data store at the same time
MaxFetches == 2
\* inserts awaiting the data store plus redirect timers not yet fired
MaxPending == 2

(***************************************************************************)
(* The session provider's users and the data store's tables (external      *)
(* collaborators: fixed sample contents).                                  *)
(***************************************************************************)
NoUser == "null"
Users == {"fa", "fb", "fc", "st"}
UserVals == Users \cup {NoUser}

Role(u) == IF u \in {"fa", "fb", "fc"} THEN "faculty" ELSE "student"

\* !user || user.role !== "faculty", negated
IsFaculty(u) == u # NoUser /\ Role(u) = "faculty"

\* rows of teaching_assignments: fa teaches c1 and c2, fb is assigned a course
\* id that has no row in courses, fc and st have no assignment
TeachingAssignments ==
    { [user_id |-> "fa", course_id |-> "c1"],
      [user_id |-> "fa", course_id |-> "c2"],
      [user_id |-> "fb", course_id |-> "c9"] }

\* rows of courses: id and code (the column the page orders by)
CourseRows ==
    { [id |-> "c1", code |-> 471],
      [id |-> "c2", code |-> 101],
      [id |-> "c3", code |-> 220] }

\* .from("teaching_assignments").select("course_id").eq("user_id", uid)
SelectAssignments(uid) == { r \in TeachingAssignments : r.user_id = uid }

\* teachingAssignments.map((assignment) => assignment.course_id)
CourseIdsOf(rows) == { r.course_id : r \in rows }

RECURSIVE SortByCode(_)
SortByCode(rows) ==
    IF rows = {} THEN << >>
    ELSE LET first == CHOOSE r \in rows : \A q \in rows : r.code <= q.code
         IN  << first.id >> \o SortByCode(rows \ {first})

\* .from("courses").select("*").in("id", courseIds).order("code"), as the
\* sequence of the ids of the rows returned
SelectCourses(courseIds) == SortByCode({ r \in CourseRows : r.id \in courseIds })

(***************************************************************************)
(* Form values the user may enter.                                         *)
(***************************************************************************)
TitleVals == {"", "Intro"}
DescriptionVals == {"", "notes"}
LinkVals == {"", "https://meet"}
\* a date input's value: empty, a date new Date() cannot parse, two days
DateVals == {"", "275760-01-01", "2025-03-01", "2025-03-02"}
TimeVals == {"", "09:00", "23:30"}

\* What a session's environment does, to keep the sessions explored small.
\*   "users": the session provider moves between all users; the user types
\*            a title only;
\*   "hands": the session passes between a faculty user with courses and
\*            one without assignments; the form is filled in one way;
\*   "dates": the user never changes and enters every date and time above;
\*   "texts": the user never changes and enters the optional fields too;
\*   "calls": every date on one time of day, a session that may pass to a
\*            student (for handleSubmit called directly);
\*   "waits": every faculty user, a session that may pass to nobody or to the
\*            faculty user without assignments (for the runs checked to
\*            their end).
Envs == {"users", "hands", "dates", "texts"}

\* the user the page is mounted with
EnvFirstUsers(e) ==
    CASE e = "users" -> UserVals
      [] e = "hands" -> {"fa", "fc"}
      [] e = "dates" -> {"fa"}
      [] e = "texts" -> {"fa"}
      [] e = "calls" -> {NoUser, "fa", "st"}
      [] e = "waits" -> {"fa", "fb", "fc"}

\* the users the session provider may hand the page later
EnvNextUsers(e) ==
    CASE e = "users" -> UserVals
      [] e = "hands" -> {"fa", "fc"}
      [] e = "calls" -> {"st"}
      [] e = "waits" -> {NoUser, "fc"}
      [] OTHER -> {}

EnvValues(e, name) ==
    CASE name = "title" -> TitleVals
      [] name = "description" -> IF e = "texts" THEN DescriptionVals ELSE {""}
      [] name = "meetingLink" -> IF e = "texts" THEN LinkVals ELSE {""}
      [] name = "startDate" ->
             IF e \in {"dates", "calls"} THEN DateVals
             ELSE IF e = "users" THEN {""} ELSE {"", "2025-03-01"}
      [] name = "endDate" ->
             IF e \in {"dates", "calls"} THEN DateVals
             ELSE IF e = "users" THEN {""} ELSE {"", "2025-03-02"}
      [] name \in {"startTime", "endTime"} ->
             IF e = "dates" THEN TimeVals
             ELSE IF e = "users" THEN {""} ELSE {"", "09:00"}

FieldNames == {"courseId", "title", "description", "startDate", "startTime",
               "endDate", "endTime", "meetingLink"}

EmptyForm ==
    [courseId |-> "", title |-> "", description |-> "", startDate |-> "",
     startTime |-> "", endDate |-> "", endTime |-> "", meetingLink |-> ""]

(***************************************************************************)
(* Dates: new Date(`${date}T${time}`) reads a local time, toISOString()    *)
(* writes the instant in UTC and throws on an invalid date, new Date(iso)  *)
(* reads it back.  Time values are minutes since 2025-02-28T00:00Z.        *)
(***************************************************************************)
MinutesPerDay == 24 * 60
\* the browser's zone is east of UTC by this many minutes
TzOffset == 6 * 60

\* a Date whose time value is NaN
InvalidDate == [valid |-> FALSE, time |-> 0]
\* what stands for the RangeError toISOString throws
RangeError == << >>

DayNumber(d) == IF d = "2025-03-01" THEN 1 ELSE 2
MinuteOfDay(t) == IF t = "09:00" THEN 9 * 60 ELSE 23 * 60 + 30

\* new Date(`${date}T${time}`)
NewDate(d, t) ==
    IF d \in {"2025-03-01", "2025-03-02"} /\ t \in {"09:00", "23:30"}
    THEN [valid |-> TRUE,
          time |-> DayNumber(d) * MinutesPerDay + MinuteOfDay(t) - TzOffset]
    ELSE InvalidDate

\* Date.prototype.toISOString: <<UTC day, UTC minute>>, or the throw
ToISOString(date) ==
    IF ~date.valid THEN RangeError
    ELSE << date.time \div MinutesPerDay, date.time % MinutesPerDay >>

\* new Date(isoString)
ParseISO(iso) == iso[1] * MinutesPerDay + iso[2]

(***************************************************************************)
(* Messages.  A text is the sequence of the parts the source concatenates. *)
(***************************************************************************)
Msg(text, type) == [text |-> text, type |-> type]
NoMessage == Msg(<< >>, "")
MsgNotAssigned ==
    Msg(<<"You are not assigned to any courses. Please contact an administrator.">>, "error")
MsgNoCourses == Msg(<<"No courses found. Please contact an administrator.">>, "error")
MsgLoadFailed == Msg(<<"Failed to load courses. Please refresh the page.">>, "error")
MsgNoPermission == Msg(<<"You don't have permission to perform this action">>, "error")
MsgRequired == Msg(<<"Please fill in all required fields">>, "error")
MsgInvalidDate == Msg(<<"Invalid date or time format">>, "error")
MsgEndBeforeStart == Msg(<<"End time must be after start time">>, "error")
MsgSuccess == Msg(<<"Class session created successfully">>, "success")
MsgCreateFailed(detail) == Msg(<<"Failed to create class session: ">> \o detail, "error")

Null == "NULL"
\* new Date().toISOString() when the row is built
Now == "now"
CreatePath == "/dashboard/faculty/classes/create"
ClassesPath == "/dashboard/faculty/classes"

(***************************************************************************)
(* State.                                                                  *)
(***************************************************************************)
VARIABLES
    env,         \* what this session's environment does (never changes)
    route,       \* the router's current path
    user,        \* useAuth().user: a user id or NoUser
    courses,     \* useState<Course[]>: sequence of course ids
    loading,     \* useState(true)
    submitting,  \* useState(false)
    message,     \* useState({text, type})
    formData,    \* useState({courseId, ...})
    fetches,     \* bag of fetchCourses runs awaiting the data store
    submits,     \* bag of handleSubmit runs awaiting their insert
    timers       \* redirect timeouts scheduled and not yet fired

vars == << env, route, user, courses, loading, submitting, message, formData,
           fetches, submits, timers >>

Mounted == route = CreatePath

\* the run of fetchCourses started by the effect for user u, up to its first await
StartFetch(u) == [user |-> u, pc |-> "teaching_assignments", courseIds |-> {}]

InitIn(E) ==
    /\ env \in E
    /\ route = CreatePath
    /\ user \in EnvFirstUsers(env)
    /\ courses = << >>
    /\ loading = TRUE
    /\ submitting = FALSE
    /\ message = NoMessage
    /\ formData = EmptyForm
    /\ fetches = IF IsFaculty(user) THEN SetToBag({StartFetch(user)}) ELSE EmptyBag
    /\ submits = EmptyBag
    /\ timers = 0

(***************************************************************************)
(* The effect: fetchCourses.                                               *)
(***************************************************************************)
\* the session provider hands the page another user; the effect ([user]) runs
\* fetchCourses for it, which returns at once for a non-faculty user and
\* otherwise sets loading and issues the teaching_assignments read
SetUser(u) ==
    /\ Mounted
    /\ u # user
    /\ user' = u
    /\ IF IsFaculty(u)
       THEN /\ BagCardinality(fetches) < MaxFetches
            /\ loading' = TRUE
            /\ fetches' = fetches (+) SetToBag({StartFetch(u)})
       ELSE UNCHANGED << loading, fetches >>
    /\ UNCHANGED << env, route, courses, submitting, message, formData, submits, timers >>

\* FetchFailed without its finally block
FetchFailed_NoFinally(f) ==
    /\ message' = MsgLoadFailed
    /\ fetches' = fetches (-) SetToBag({f})
    /\ UNCHANGED << courses, formData, loading >>

\* catch: "Failed to load courses", then finally: setLoading(false)
FetchFailed(f) ==
    /\ message' = MsgLoadFailed
    /\ loading' = FALSE
    /\ fetches' = fetches (-) SetToBag({f})
    /\ UNCHANGED << courses, formData >>

\* CoursesQuery without its .in("id", courseIds) filter
CoursesQuery_AllCourses(f, rows) ==
    [f EXCEPT !.pc = "courses", !.courseIds = { r.id : r \in CourseRows }]

\* the run's courses read: .in("id", courseIds), issued after the first await
CoursesQuery(f, rows) == [f EXCEPT !.pc = "courses", !.courseIds = CourseIdsOf(rows)]

\* the teaching_assignments read of run f returns: an error, or the user's rows
AssignmentsReturn(f, out) ==
    /\ BagIn(f, fetches)
    /\ f.pc = "teaching_assignments"
    /\ IF out = "error"
       THEN FetchFailed(f)
       ELSE LET rows == SelectAssignments(f.user)
            IN  IF rows = {}
                THEN /\ message' = MsgNotAssigned
                     /\ loading' = FALSE
                     /\ fetches' = fetches (-) SetToBag({f})
                     /\ UNCHANGED << courses, formData >>
                ELSE /\ fetches' = (fetches (-) SetToBag({f})) (+) SetToBag({CoursesQuery(f, rows)})
                     /\ UNCHANGED << courses, formData, message, loading >>
    /\ UNCHANGED << env, route, user, submitting, submits, timers >>

\* the courses read of run f returns: an error, or the rows ordered by code
CoursesReturn(f, out) ==
    /\ BagIn(f, fetches)
    /\ f.pc = "courses"
    /\ IF out = "error"
       THEN FetchFailed(f)
       ELSE LET coursesData == SelectCourses(f.courseIds)
            IN  /\ IF Len(coursesData) > 0
                   THEN /\ courses' = coursesData
                        /\ formData' = [formData EXCEPT !.courseId = coursesData[1]]
                        /\ UNCHANGED message
                   ELSE /\ message' = MsgNoCourses
                        /\ UNCHANGED << courses, formData >>
                /\ loading' = FALSE
                /\ fetches' = fetches (-) SetToBag({f})
    /\ UNCHANGED << env, route, user, submitting, submits, timers >>

(***************************************************************************)
(* The form.                                                               *)
(***************************************************************************)
\* the form is in the page: user?.role === "faculty" and not loading
FormRendered == Mounted /\ IsFaculty(user) /\ ~loading

\* SubmitDisabled without submitting
SubmitDisabled_NoSubmitting == Len(courses) = 0

\* the submit button's disabled={submitting || courses.length === 0}
SubmitDisabled == submitting \/ Len(courses) = 0

\* what each control can hand to handleChange; the select offers the courses
FieldValues(name) ==
    IF name = "courseId"
    THEN IF Len(courses) = 0 THEN {""} ELSE { courses[i] : i \in 1..Len(courses) }
    ELSE EnvValues(env, name)

HandleChange(name, value) ==
    /\ FormRendered
    /\ formData' = [formData EXCEPT ![name] = value]
    /\ UNCHANGED << env, route, user, courses, loading, submitting, message, fetches,
                    submits, timers >>

\* RequiredMissing without endTime
RequiredMissing_NoEndTime(fd) ==
    \/ fd.courseId = ""
    \/ fd.title = ""
    \/ fd.startDate = ""
    \/ fd.startTime = ""
    \/ fd.endDate = ""

\* the first validation of handleSubmit
RequiredMissing(fd) ==
    \/ fd.courseId = ""
    \/ fd.title = ""
    \/ fd.startDate = ""
    \/ fd.startTime = ""
    \/ fd.endDate = ""
    \/ fd.endTime = ""

\* EndNotAfterStart with < for <=
EndNotAfterStart_Strict(startDateTime, endDateTime) ==
    ParseISO(endDateTime) < ParseISO(startDateTime)

\* new Date(endDateTime) <= new Date(startDateTime)
EndNotAfterStart(startDateTime, endDateTime) ==
    ParseISO(endDateTime) <= ParseISO(startDateTime)

\* field || null
OrNull(s) == IF s = "" THEN Null ELSE s

ClassData(fd, u, startDateTime, endDateTime) ==
    [course_id |-> fd.courseId,
     title |-> fd.title,
     description |-> OrNull(fd.description),
     start_time |-> startDateTime,
     end_time |-> endDateTime,
     meeting_link |-> OrNull(fd.meetingLink),
     created_by |-> u,
     reminder_sent |-> FALSE,
     updated_at |-> Now]

\* a handleSubmit run awaiting its insert: the row sent and the formData the
\* handler captured when it started
InsertCall(fd, u, startDateTime, endDateTime) ==
    [classData |-> ClassData(fd, u, startDateTime, endDateTime), formData |-> fd]

\* handleSubmit up to its await (or its early return)
HandleSubmitRun ==
    /\ IF ~IsFaculty(user)
       THEN /\ message' = MsgNoPermission
            /\ UNCHANGED << submitting, submits >>
       ELSE IF RequiredMissing(formData)
       THEN /\ message' = MsgRequired
            /\ submitting' = FALSE
            /\ UNCHANGED submits
       ELSE LET startDateTime == ToISOString(NewDate(formData.startDate, formData.startTime))
                endDateTime == ToISOString(NewDate(formData.endDate, formData.endTime))
            IN  IF startDateTime = RangeError \/ endDateTime = RangeError
                THEN /\ message' = MsgInvalidDate
                     /\ submitting' = FALSE
                     /\ UNCHANGED submits
                ELSE IF EndNotAfterStart(startDateTime, endDateTime)
                THEN /\ message' = MsgEndBeforeStart
                     /\ submitting' = FALSE
                     /\ UNCHANGED submits
                ELSE /\ BagCardinality(submits) + timers < MaxPending
                     /\ submitting' = TRUE
                     /\ message' = NoMessage
                     /\ submits' = submits (+)
                            SetToBag({InsertCall(formData, user, startDateTime, endDateTime)})
    /\ UNCHANGED << env, route, user, courses, loading, formData, fetches, timers >>

\* the user submits the form with its submit control
HandleSubmit ==
    /\ FormRendered
    /\ ~SubmitDisabled
    /\ HandleSubmitRun

\* handleSubmit invoked with a submit event whatever the page shows
HandleSubmitCall ==
    /\ Mounted
    /\ HandleSubmitRun

\* the form after a successful insert: the closure's courseId, the rest empty
ResetForm(fd) == [EmptyForm EXCEPT !.courseId = fd.courseId]

\* error.message of what the handler throws after the await
ThrownMessage(out) ==
    IF out = "error" THEN <<"Database error: ", "insert rejected">>
    ELSE <<"No data returned from database after insert">>

\* after the await, no error and a row: the success message, the form reset,
\* the redirect scheduled
InsertSucceeded(s) ==
    /\ message' = MsgSuccess
    /\ formData' = ResetForm(s.formData)
    /\ timers' = timers + 1

\* InsertFailed with the redirect scheduled all the same
InsertFailed_Redirects(out) ==
    /\ message' = MsgCreateFailed(ThrownMessage(out))
    /\ timers' = timers + 1
    /\ UNCHANGED formData

\* InsertFailed with the form emptied all the same
InsertFailed_ResetsForm(out) ==
    /\ message' = MsgCreateFailed(ThrownMessage(out))
    /\ formData' = ResetForm(formData)
    /\ UNCHANGED timers

\* after the await, an error or no row: the throw, and the outer catch
InsertFailed(out) ==
    /\ message' = MsgCreateFailed(ThrownMessage(out))
    /\ UNCHANGED << formData, timers >>

\* the insert of run s returns: an error, no rows, or the inserted row;
\* finally: setSubmitting(false)
InsertReturn(s, out) ==
    /\ BagIn(s, submits)
    /\ submits' = submits (-) SetToBag({s})
    /\ IF out = "ok" THEN InsertSucceeded(s) ELSE InsertFailed(out)
    /\ submitting' = FALSE
    /\ UNCHANGED << env, route, user, courses, loading, fetches >>

\* a redirect timeout fires: router.push("/dashboard/faculty/classes").  The
\* page is left: no control of it is used any more, while the handlers still
\* awaiting the data store run on with the state they hold.
RedirectFire ==
    /\ timers > 0
    /\ timers' = timers - 1
    /\ route' = ClassesPath
    /\ UNCHANGED << env, user, courses, loading, submitting, message, formData, fetches,
                    submits >>

ReadOutcomes == {"error", "ok"}
InsertOutcomes == {"error", "empty", "ok"}

SomeAssignmentsReturn == \E f \in BagToSet(fetches), out \in ReadOutcomes : AssignmentsReturn(f, out)
SomeCoursesReturn == \E f \in BagToSet(fetches), out \in ReadOutcomes : CoursesReturn(f, out)
SomeInsertReturn == \E s \in BagToSet(submits), out \in InsertOutcomes : InsertReturn(s, out)
SomeChange == \E name \in FieldNames : \E value \in FieldValues(name) : HandleChange(name, value)
SomeUser == \E u \in EnvNextUsers(env) : SetUser(u)

Next ==
    \/ SomeUser
    \/ SomeAssignmentsReturn
    \/ SomeCoursesReturn
    \/ SomeChange
    \/ HandleSubmit
    \/ SomeInsertReturn
    \/ RedirectFire

Init == InitIn(Envs)

Spec == Init /\ [][Next]_vars

\* the same page with handleSubmit also called directly
HandlerNext == Next \/ HandleSubmitCall

InitCalls == InitIn({"calls"})

HandlerSpec == InitCalls /\ [][HandlerNext]_vars

\* every data-store call returns and every timeout fires
InitWaits == InitIn({"waits"})

FairSpec ==
    /\ InitWaits
    /\ [][Next]_vars
    /\ WF_vars(SomeAssignmentsReturn)
    /\ WF_vars(SomeCoursesReturn)
    /\ WF_vars(SomeInsertReturn)
    /\ WF_vars(RedirectFire)

(***************************************************************************)
(* Steps, as the properties below see them.                                *)
(***************************************************************************)
\* the handleSubmit runs whose insert is issued in this step
NewInserts == { s \in BagToSet(submits') : CopiesIn(s, submits') > CopiesIn(s, submits) }

\* the fetchCourses runs whose read is issued in this step
NewReads == { f \in BagToSet(fetches') : CopiesIn(f, fetches') > CopiesIn(f, fetches) }

\* this step is handleSubmit running up to its await or early return
SubmitStep == HandleSubmit \/ HandleSubmitCall

\* this step is an insert returning an error or no rows
InsertFailsStep == \E s \in BagToSet(submits), out \in {"error", "empty"} : InsertReturn(s, out)

\* this step is an insert returning its row
InsertSucceedsStep == \E s \in BagToSet(submits) : InsertReturn(s, "ok")

AllRequiredFilled(fd) ==
    \A name \in {"courseId", "title", "startDate", "startTime", "endDate", "endTime"} :
        fd[name] # ""

StartOf(fd) == NewDate(fd.startDate, fd.startTime)
EndOf(fd) == NewDate(fd.endDate, fd.endTime)

(***************************************************************************)
(* C1: an insert into class_sessions is issued only by a submission made   *)
(* while the current user exists and is faculty, the six required fields   *)
(* are non-empty, both date/time pairs are valid instants, and the end     *)
(* instant is strictly later than the start instant.                       *)
(***************************************************************************)
C1_InsertOnlyIfValid ==
    [][ NewInserts # {} =>
          /\ SubmitStep
          /\ user # NoUser /\ Role(user) = "faculty"
          /\ AllRequiredFilled(formData)
          /\ StartOf(formData).valid /\ EndOf(formData).valid
          /\ EndOf(formData).time > StartOf(formData).time ]_vars

\* an insert is outstanding for a form whose end is a day after its start
C1_Witness ==
    \E s \in BagToSet(submits) :
        /\ s.formData.startDate = "2025-03-01"
        /\ s.formData.endDate = "2025-03-02"
        /\ s.classData.created_by = "fa"

(***************************************************************************)
(* C2: every row handleSubmit inserts has a course_id among the courses    *)
(* assigned by teaching_assignments to the user current at the insert, and *)
(* created_by equal to that user.                                          *)
(***************************************************************************)
C2_RowForOwnCourse ==
    [][ \A s \in NewInserts :
          /\ s.classData.created_by = user
          /\ s.classData.course_id \in CourseIdsOf(SelectAssignments(user)) ]_vars

(***************************************************************************)
(* C3: a redirect is scheduled only by an insert that returned its row,    *)
(* every such insert schedules one, a navigation happens only by a         *)
(* scheduled redirect firing, and a scheduled redirect is eventually       *)
(* followed by the navigation to /dashboard/faculty/classes.               *)
(***************************************************************************)
C3_RedirectAfterSuccess ==
    /\ [][ timers' > timers => InsertSucceedsStep ]_vars
    /\ [][ InsertSucceedsStep => timers' = timers + 1 ]_vars
    /\ [][ route' # route => timers > 0 /\ timers' = timers - 1 /\ route' = ClassesPath ]_vars
    /\ (timers > 0) ~> (timers = 0 /\ route = ClassesPath)

\* the page has navigated after a successful insert
C3_Witness == route = ClassesPath /\ message = MsgSuccess /\ timers = 0

(***************************************************************************)
(* C4: when the insert returns an error or no rows, handleSubmit ends with *)
(* an error message starting "Failed to create class session", submitting  *)
(* false, no redirect scheduled and formData as the user left it.          *)
(***************************************************************************)
C4_InsertFailureKeepsForm ==
    [][ InsertFailsStep =>
          /\ message'.type = "error"
          /\ Head(message'.text) = "Failed to create class session: "
          /\ submitting' = FALSE
          /\ timers' = timers
          /\ route' = route
          /\ formData' = formData ]_vars

\* a failed insert has left a filled form behind
C4_Witness ==
    /\ message.type = "error"
    /\ Len(message.text) > 1
    /\ Head(message.text) = "Failed to create class session: "
    /\ AllRequiredFilled(formData)
    /\ ~submitting

(***************************************************************************)
(* C5: when handleSubmit rejects the form of a faculty user (a required    *)
(* field empty, else a date/time that does not parse, else an end not      *)
(* after the start), no insert is issued, the message is the matching      *)
(* error, submitting is false, and formData and courses are unchanged.     *)
(***************************************************************************)
C5_Rejection(fd) ==
    IF ~AllRequiredFilled(fd) THEN MsgRequired
    ELSE IF ~StartOf(fd).valid \/ ~EndOf(fd).valid THEN MsgInvalidDate
    ELSE IF EndOf(fd).time <= StartOf(fd).time THEN MsgEndBeforeStart
    ELSE NoMessage

C5_RejectionLeavesState ==
    [][ (SubmitStep /\ IsFaculty(user) /\ C5_Rejection(formData) # NoMessage) =>
          /\ submits' = submits
          /\ message' = C5_Rejection(formData)
          /\ message'.type = "error"
          /\ submitting' = FALSE
          /\ formData' = formData
          /\ courses' = courses ]_vars

\* a filled form with an end before its start has been rejected
C5_Witness ==
    /\ message = MsgEndBeforeStart
    /\ AllRequiredFilled(formData)
    /\ EndOf(formData).valid /\ StartOf(formData).valid
    /\ EndOf(formData).time < StartOf(formData).time
    /\ ~submitting

(***************************************************************************)
(* C6: while the current user is absent or not faculty, no query is issued *)
(* to the data store, and handleSubmit only sets the permission message.   *)
(***************************************************************************)
C6_NoQueryWithoutFaculty ==
    [][ (~IsFaculty(user) /\ user' = user) =>
          /\ NewReads = {}
          /\ NewInserts = {}
          /\ SubmitStep =>
                /\ message' = MsgNoPermission
                /\ UNCHANGED << submitting, formData, courses >> ]_vars

(***************************************************************************)
(* C7: a run of fetchCourses issues its courses read only when its         *)
(* teaching_assignments read has returned rows, for exactly the course ids *)
(* of those rows; when the first read fails or returns nothing, no courses *)
(* read is issued and courses is unchanged.                                *)
(***************************************************************************)
C7_AssignedIds(u) == { r.course_id : r \in { a \in TeachingAssignments : a.user_id = u } }

C7_ReadsSequential ==
    /\ [][ \A f \in NewReads :
             f.pc = "courses" =>
                /\ f.courseIds = C7_AssignedIds(f.user)
                /\ f.courseIds # {}
                /\ \E g \in BagToSet(fetches) :
                      /\ g.pc = "teaching_assignments"
                      /\ g.user = f.user
                      /\ CopiesIn(g, fetches') = CopiesIn(g, fetches) - 1 ]_vars
    /\ [][ (\E f \in BagToSet(fetches) :
               \/ AssignmentsReturn(f, "error")
               \/ AssignmentsReturn(f, "ok") /\ C7_AssignedIds(f.user) = {})
           => (courses' = courses /\ \A f \in NewReads : f.pc # "courses") ]_vars

\* a courses read is outstanding
C7_Witness ==
    \E f \in BagToSet(fetches) : f.pc = "courses" /\ f.courseIds = {"c1", "c2"}

(***************************************************************************)
(* C8: at most one insert is outstanding; while it is, submitting is true  *)
(* and the submit control is disabled; a step issues at most one insert.   *)
(***************************************************************************)
C8_OneInsertOutstanding ==
    /\ [](BagCardinality(submits) <= 1)
    /\ [](BagCardinality(submits) = 1 => submitting /\ SubmitDisabled)
    /\ [][ BagCardinality(submits') <= BagCardinality(submits) + 1 ]_vars
    /\ [][ (BagCardinality(submits) = 1 /\ HandleSubmit) => FALSE ]_vars

\* an insert is outstanding while the form is shown
C8_Witness == BagCardinality(submits) = 1 /\ submitting /\ FormRendered

(***************************************************************************)
(* C9: once a fetchCourses run awaits the data store, loading eventually   *)
(* becomes false; once submitting is true, it eventually becomes false.    *)
(***************************************************************************)
C9_BusyFlagsCleared ==
    /\ (BagCardinality(fetches) > 0) ~> (loading = FALSE)
    /\ (submitting = TRUE) ~> (submitting = FALSE)

\* a fetch and a submission have both ended
C9_Witness ==
    /\ fetches = EmptyBag /\ submits = EmptyBag
    /\ ~loading /\ ~submitting
    /\ message = MsgSuccess

(***************************************************************************)
(* C10: after a successful insert the message is the success message, the  *)
(* fields other than courseId are empty and courseId is the course         *)
(* selected in the form when the insert returned; the success message      *)
(* appears only by a successful insert.                                    *)
(***************************************************************************)
C10_SuccessKeepsSelectedCourse ==
    /\ [][ InsertSucceedsStep =>
             /\ message'.type = "success"
             /\ [formData' EXCEPT !.courseId = ""] = EmptyForm
             /\ formData'.courseId = formData.courseId ]_vars
    /\ [][ (message'.type = "success" /\ message.type # "success") => InsertSucceedsStep ]_vars

====
